---- MODULE Spec2Model ----
(***************************************************************************)
(* A model of the Slack search proxy (src/server.js): the OAuth token      *)
(* exchange, the bearer-credential gate, the search facade and the two     *)
(* usage ledgers (the CSV file kept in a GitHub repository and the          *)
(* userStats documents kept in Firestore).                                 *)
(*                                                                         *)
(* Text is modelled as a sequence of tokens: the separator ",", the line   *)
(* break, the blank, ":" and word atoms (a name part, an id, a column      *)
(* name, a decimal digit).  Every string operation of the code (split,     *)
(* trim, includes, parseInt, template literals, join) is computed on that  *)
(* representation as JavaScript computes it on characters.                 *)
(***************************************************************************)
EXTENDS Integers, Sequences, FiniteSets, TLC

\* ------------------------------------------------------------------ bounds
\* HTTP requests received in one run.
MaxReqs == 2
\* Direct recordQuestion calls (trackUserQuestion + trackUserActivityInFirebase)
\* started in one run of the ledger specification.
MaxCalls == 3
\* Attempts of one Firestore transaction before runTransaction gives up.
MaxTxnAttempts == 2

\* ------------------------------------------------------------------ text
Comma == ","
Newline == "\n"
Space == " "
Colon == ":"

\* What a template literal prints for a variable that holds undefined, and the
\* value undefined itself (no text: a one-token sequence no text contains).
UndefinedText == <<"undefined">>
Undefined == <<"#undefined">>

IsWhite(c) == c \in {Space, Newline}

\* String.prototype.trim
RECURSIVE Trim(_)
Trim(s) ==
  IF s = <<>> THEN s
  ELSE IF IsWhite(Head(s)) THEN Trim(Tail(s))
  ELSE IF IsWhite(s[Len(s)]) THEN Trim(SubSeq(s, 1, Len(s) - 1))
  ELSE s

\* String.prototype.split on a one-character separator: "" gives [""].
RECURSIVE Split(_, _)
Split(s, sep) ==
  IF \A i \in 1..Len(s) : s[i] # sep THEN <<s>>
  ELSE LET i == CHOOSE k \in 1..Len(s) : s[k] = sep /\ \A j \in 1..(k - 1) : s[j] # sep
       IN <<SubSeq(s, 1, i - 1)>> \o Split(SubSeq(s, i + 1, Len(s)), sep)

\* String.prototype.includes for one of the column names.
Includes(s, word) == \E i \in 1..Len(s) : s[i] = word

Digits == <<"0", "1", "2", "3", "4", "5", "6", "7", "8", "9">>
IsDigit(c) == \E d \in 1..10 : Digits[d] = c
DigitValue(c) == (CHOOSE d \in 1..10 : Digits[d] = c) - 1

\* `${n}` for an integer n >= 0.
RECURSIVE FormatInt(_)
FormatInt(n) ==
  IF n < 10 THEN <<Digits[n + 1]>>
  ELSE FormatInt(n \div 10) \o <<Digits[(n % 10) + 1]>>

\* `${v}` for a string or undefined.
Show(v) == IF v = Undefined THEN UndefinedText ELSE v

\* parseInt(s) || 0: the leading digits of s after leading blanks; NaN (no
\* leading digit, or undefined) becomes 0.
RECURSIVE LeadingValue(_, _)
LeadingValue(s, acc) ==
  IF s # <<>> /\ IsDigit(Head(s))
  THEN LeadingValue(Tail(s), 10 * acc + DigitValue(Head(s)))
  ELSE acc
RECURSIVE DropWhite(_)
DropWhite(s) == IF s # <<>> /\ IsWhite(Head(s)) THEN DropWhite(Tail(s)) ELSE s
ParseIntOr0(s) == IF s = Undefined THEN 0 ELSE LeadingValue(DropWhite(s), 0)

\* Array.prototype.join
RECURSIVE Join(_, _)
Join(parts, sep) ==
  IF parts = <<>> THEN <<>>
  ELSE IF Len(parts) = 1 THEN parts[1]
  ELSE parts[1] \o <<sep>> \o Join(Tail(parts), sep)

\* ------------------------------------------------------------------ CSV file ledger
CSV_HEADER ==
  <<"user_name", Comma, "team_name", Comma, "user_id", Comma, "team_id", Comma,
    "questions", Newline>>

\* The key of a row in userStats: `${teamId}:${userId}`.
StatsKey(teamId, userId) == Show(teamId) \o <<Colon>> \o Show(userId)

\* const [userName, teamName, userId, teamId, questionsStr] =
\*   line.split(',').map(s => s.trim());  questions = parseInt(questionsStr) || 0
ParseLine(line) ==
  LET parts == Split(line, Comma)
      f(i) == IF i <= Len(parts) THEN Trim(parts[i]) ELSE Undefined
  IN [userName |-> f(1), teamName |-> f(2), userId |-> f(3), teamId |-> f(4),
      questions |-> ParseIntOr0(f(5))]

\* Map.prototype.set on the insertion-ordered userStats: a known key keeps its
\* place and takes the new value, a new key is appended.
MapSet(m, key, row) ==
  IF \E i \in 1..Len(m) : m[i].key = key
  THEN [i \in 1..Len(m) |-> IF m[i].key = key THEN [key |-> key, row |-> row] ELSE m[i]]
  ELSE Append(m, [key |-> key, row |-> row])

MapHas(m, key) == \E i \in 1..Len(m) : m[i].key = key
MapGet(m, key) == m[CHOOSE i \in 1..Len(m) : m[i].key = key].row

\* The loop over dataLines: blank lines are skipped, each other line is parsed
\* and stored under its key.
RECURSIVE ParseLines(_, _)
ParseLines(lines, m) ==
  IF lines = <<>> THEN m
  ELSE LET line == Head(lines)
       IN IF Trim(line) = <<>> THEN ParseLines(Tail(lines), m)
          ELSE LET row == ParseLine(line)
               IN ParseLines(Tail(lines), MapSet(m, StatsKey(row.teamId, row.userId), row))

\* Parse existing CSV: the table read from a blob (empty when the blob is "").
ParseCsv(content) ==
  IF content = <<>> THEN <<>>
  ELSE LET lines == Split(Trim(content), Newline)
           hasHeader == Includes(lines[1], "user_name") \/ Includes(lines[1], "team_name")
           dataLines == IF hasHeader THEN Tail(lines) ELSE lines
       IN ParseLines(dataLines, <<>>)

\* An update that counts the question twice.
BumpUserTwice(m, identity) ==
  LET key == StatsKey(identity.team_id, identity.user_id)
  IN IF MapHas(m, key)
     THEN MapSet(m, key, [MapGet(m, key) EXCEPT !.questions = @ + 2])
     ELSE MapSet(m, key, [userName |-> identity.user, teamName |-> identity.team,
                          userId |-> identity.user_id, teamId |-> identity.team_id,
                          questions |-> 2])

\* Update or add user.
BumpUser(m, identity) ==
  LET key == StatsKey(identity.team_id, identity.user_id)
  IN IF MapHas(m, key)
     THEN MapSet(m, key, [MapGet(m, key) EXCEPT !.questions = @ + 1])
     ELSE MapSet(m, key, [userName |-> identity.user, teamName |-> identity.team,
                          userId |-> identity.user_id, teamId |-> identity.team_id,
                          questions |-> 1])

\* Array.prototype.sort with (a, b) => b.questions - a.questions: a stable
\* sort, descending by questions.
RECURSIVE InsertDesc(_, _)
InsertDesc(sorted, row) ==
  IF sorted = <<>> THEN <<row>>
  ELSE IF Head(sorted).questions >= row.questions
       THEN <<Head(sorted)>> \o InsertDesc(Tail(sorted), row)
       ELSE <<row>> \o sorted
RECURSIVE SortDesc(_)
SortDesc(rows) ==
  IF rows = <<>> THEN <<>>
  ELSE InsertDesc(SortDesc(SubSeq(rows, 1, Len(rows) - 1)), rows[Len(rows)])

\* `${user.userName},${user.teamName},${user.userId},${user.teamId},${user.questions}`
FormatRow(row) ==
  Show(row.userName) \o <<Comma>> \o Show(row.teamName) \o <<Comma>> \o Show(row.userId)
    \o <<Comma>> \o Show(row.teamId) \o <<Comma>> \o FormatInt(row.questions)

MapValues(m) == [i \in 1..Len(m) |-> m[i].row]

\* Generate new CSV content: header + rows.
FormatCsv(m) ==
  LET sorted == SortDesc(MapValues(m))
  IN CSV_HEADER \o Join([i \in 1..Len(sorted) |-> FormatRow(sorted[i])], Newline)

\* The blob trackUserQuestion writes after reading `content` ("" when the read
\* returned null or an empty file).
NewCsvContent(content, identity) == FormatCsv(BumpUser(ParseCsv(content), identity))

\* ------------------------------------------------------------------ identities
\* The (team, user) identities Slack's auth.test can return.  The second
\* workspace name holds the column separator.
IdAnn ==
  [team_id |-> <<"T1">>, team |-> <<"Acme">>, user_id |-> <<"U1">>, user |-> <<"ann">>]
IdBob ==
  [team_id |-> <<"T2">>, team |-> <<"Beta", Comma, Space, "Inc">>, user_id |-> <<"U2">>,
   user |-> <<"bob">>]
Identities == {IdAnn, IdBob}

\* ------------------------------------------------------------------ state
VARIABLES
  config,     \* which optional backends the environment configures
  now,        \* the clock, in seconds
  ghFile,     \* usage_stats.csv in the content store: [exists, content]
  docs,       \* the userStats collection: document id -> entry
  csvTasks,   \* the trackUserQuestion calls in flight: call id -> state
  fbTasks,    \* the trackUserActivityInFirebase calls in flight: call id -> state
  USERS,      \* the in-memory cache of authorized users: key -> record
  redisDb,    \* the remote key/value store: the user hashes, users:index, the keys' deadlines
  reqs,       \* the HTTP requests: request id -> the handler's position and locals
  issued      \* the credentials the token endpoint has handed to clients

httpVars == <<USERS, redisDb, reqs, issued>>
vars == <<config, now, ghFile, docs, csvTasks, fbTasks, USERS, redisDb, reqs, issued>>

CallIds == 1..(IF MaxReqs > MaxCalls THEN MaxReqs ELSE MaxCalls)

\* ------------------------------------------------------------------ time
TOKEN_TTL_SECONDS == 60 * 60 * 24 * 7
\* The instants the clock is observed at: the start, one second on, and the
\* same two a token lifetime later.
ClockPoints == {0, 1, TOKEN_TTL_SECONDS, TOKEN_TTL_SECONDS + 1}

Tick ==
  /\ \E t \in ClockPoints : t > now /\ now' = t
  /\ UNCHANGED <<config, ghFile, docs, csvTasks, fbTasks, httpVars>>

\* ------------------------------------------------------------------ content store
\* The blob sha the contents API returns for a file: a function of its content.
BlobSha(content) == <<"sha">> \o content
NoSha == <<>>

\* What `file` holds after getFileFromGitHub: null, or {content, sha}.
NullFile == [isNull |-> TRUE, content |-> <<>>, sha |-> NoSha]

\* getFileFromGitHub(path): null when GitHub is not configured, when the file
\* is absent (404) and when the request fails; else the content and its sha.
GetFileFromGitHub(outcome) ==
  IF ~config.github THEN NullFile
  ELSE IF outcome = "error" THEN NullFile
  ELSE IF ~ghFile.exists THEN NullFile
  ELSE [isNull |-> FALSE, content |-> ghFile.content, sha |-> BlobSha(ghFile.content)]

\* file?.content when truthy, else ''
FileContent(file) == IF file.isNull THEN <<>> ELSE file.content

\* A write that carries the sha of the blob stored at the time of the PUT.
FileShaCurrent(file) == IF ghFile.exists THEN BlobSha(ghFile.content) ELSE NoSha

\* A write that never passes the sha it read.
FileShaDropped(file) == NoSha

\* file?.sha
FileSha(file) == IF file.isNull THEN NoSha ELSE file.sha

\* The contents API's answer to a PUT: an existing file is replaced only when
\* the request carries the sha of the blob it replaces, a file is created only
\* by a request that carries none.
PutAccepted(sha) ==
  IF ghFile.exists THEN sha # NoSha /\ sha = BlobSha(ghFile.content)
  ELSE sha = NoSha

IdleCsv ==
  [pc |-> "idle", identity |-> IdAnn, file |-> NullFile, newContent |-> <<>>,
   reads |-> 0, writes |-> 0, sentSha |-> NoSha, outcome |-> "none"]

\* trackUserQuestion(userIdentity) is called: it runs to its first await, the
\* read of the file.
StartCsv(identity) == [IdleCsv EXCEPT !.pc = "read", !.identity = identity]

\* await getFileFromGitHub(CSV_FILE_PATH) returns; the table is parsed,
\* updated and serialized, and updateFileInGitHub is called.
CsvRead(c) ==
  /\ csvTasks[c].pc = "read"
  /\ \E outcome \in {"ok", "error"} :
       LET file == GetFileFromGitHub(outcome)
       IN csvTasks' = [csvTasks EXCEPT ![c] =
            [@ EXCEPT !.pc = "write", !.file = file,
                      !.reads = IF config.github THEN @ + 1 ELSE @,
                      !.newContent = NewCsvContent(FileContent(file), csvTasks[c].identity)]]
  /\ UNCHANGED <<config, now, ghFile, docs, fbTasks, httpVars>>

\* A trackUserQuestion that answers a refused PUT by reading the file again.
CsvPutRetry(t, sha, result) ==
  IF result = "rejected"
  THEN [t EXCEPT !.pc = "read", !.writes = @ + 1, !.sentSha = sha]
  ELSE [t EXCEPT !.pc = "done", !.writes = @ + 1, !.sentSha = sha, !.outcome = result]

\* updateFileInGitHub returns: "written" after a PUT that was accepted,
\* "rejected" after one the store refused, "failed" after one that did not
\* get through; the last two are caught and logged, and trackUserQuestion ends.
CsvPutDone(t, sha, result) ==
  [t EXCEPT !.pc = "done", !.writes = @ + 1, !.sentSha = sha, !.outcome = result]

\* updateFileInGitHub(path, content, sha): nothing when GitHub is not
\* configured; else one PUT that carries the sha when there is one.
CsvWrite(c) ==
  /\ csvTasks[c].pc = "write"
  /\ LET t == csvTasks[c]
         sha == FileSha(t.file)
     IN IF ~config.github
        THEN /\ csvTasks' = [csvTasks EXCEPT ![c] = [@ EXCEPT !.pc = "done", !.outcome = "skipped"]]
             /\ UNCHANGED ghFile
        ELSE \E outcome \in {"ok", "error"} :
               IF outcome = "ok" /\ PutAccepted(sha)
               THEN /\ ghFile' = [exists |-> TRUE, content |-> t.newContent]
                    /\ csvTasks' = [csvTasks EXCEPT ![c] = CsvPutDone(t, sha, "written")]
               ELSE /\ UNCHANGED ghFile
                    /\ csvTasks' = [csvTasks EXCEPT ![c] =
                         CsvPutDone(t, sha, IF outcome = "ok" THEN "rejected" ELSE "failed")]
  /\ UNCHANGED <<config, now, docs, fbTasks, httpVars>>

\* ------------------------------------------------------------------ document ledger
\* The document id: `${userIdentity.team_id}_${userIdentity.user_id}`.
DocId(identity) == identity.team_id \o <<"_">> \o identity.user_id

\* Parse first and last name from the full name.
FullName(identity) == IF identity.user = <<>> THEN <<"Unknown", Space, "User">> ELSE identity.user
NameParts(identity) == Split(Trim(FullName(identity)), Space)
FirstName(identity) ==
  IF NameParts(identity)[1] = <<>> THEN <<"Unknown">> ELSE NameParts(identity)[1]
LastName(identity) ==
  IF Len(NameParts(identity)) > 1 THEN Join(Tail(NameParts(identity)), Space) ELSE <<>>

\* transaction.set(userStatsRef, {...}): the entry of a new user; t is the
\* server timestamp of the commit.
DocCreate(identity, t) ==
  [userId |-> identity.user_id, userName |-> identity.user,
   firstName |-> FirstName(identity), lastName |-> LastName(identity),
   teamId |-> identity.team_id, teamName |-> identity.team, questionCount |-> 1,
   firstQuestionAt |-> t, lastQuestionAt |-> t, firstSeen |-> t, lastSeen |-> t]

\* An update that also stamps the "first" fields.
DocUpdateStampsFirst(currentData, identity, t) ==
  [currentData EXCEPT !.questionCount = @ + 1, !.lastQuestionAt = t,
                      !.userName = identity.user, !.firstName = FirstName(identity),
                      !.lastName = LastName(identity), !.teamName = identity.team,
                      !.lastSeen = t, !.firstSeen = t, !.firstQuestionAt = t]

\* An update that writes the count of the create branch.
DocUpdateCountOne(currentData, identity, t) ==
  [currentData EXCEPT !.questionCount = 1, !.lastQuestionAt = t,
                      !.userName = identity.user, !.firstName = FirstName(identity),
                      !.lastName = LastName(identity), !.teamName = identity.team,
                      !.lastSeen = t]

\* transaction.update(userStatsRef, {...}): the fields written over the entry
\* that the transaction read.
DocUpdate(currentData, identity, t) ==
  [currentData EXCEPT !.questionCount = @ + 1, !.lastQuestionAt = t,
                      !.userName = identity.user, !.firstName = FirstName(identity),
                      !.lastName = LastName(identity), !.teamName = identity.team,
                      !.lastSeen = t]

NoDocs == [d \in {} |-> 0]
\* transaction.get(userStatsRef): the snapshot of the entry.
DocSnapshot(id) ==
  IF id \in DOMAIN docs THEN [exists |-> TRUE, data |-> docs[id]]
  ELSE [exists |-> FALSE, data |-> NoDocs]

IdleFb ==
  [pc |-> "idle", identity |-> IdAnn, attempt |-> 0,
   snapshot |-> [exists |-> FALSE, data |-> NoDocs], outcome |-> "none"]

\* A trackUserActivityInFirebase without the check of `firestore`.
StartFbUnchecked(identity) ==
  [IdleFb EXCEPT !.pc = "get", !.identity = identity, !.attempt = 1]

\* trackUserActivityInFirebase(userIdentity) is called: it returns at once
\* without Firestore, else it runs to the await of runTransaction.
StartFb(identity) ==
  IF ~config.firestore
  THEN [IdleFb EXCEPT !.pc = "done", !.identity = identity, !.outcome = "skipped"]
  ELSE [IdleFb EXCEPT !.pc = "get", !.identity = identity, !.attempt = 1]

\* await transaction.get(userStatsRef) inside the transaction; a failed read
\* rejects runTransaction, which updateUserStatsInFirebase catches and logs.
FbGet(c) ==
  /\ fbTasks[c].pc = "get"
  /\ \E outcome \in {"ok", "error"} :
       fbTasks' = [fbTasks EXCEPT ![c] =
         IF outcome = "ok"
         THEN [@ EXCEPT !.pc = "commit", !.snapshot = DocSnapshot(DocId(fbTasks[c].identity))]
         ELSE [@ EXCEPT !.pc = "done", !.outcome = "failed"]]
  /\ UNCHANGED <<config, now, ghFile, docs, csvTasks, httpVars>>

\* The write the transaction function queues from the snapshot it read.
DocWrite(snapshot, identity, t) ==
  IF snapshot.exists THEN DocUpdate(snapshot.data, identity, t) ELSE DocCreate(identity, t)

\* The transaction commits: the write is applied when the entry is still as the
\* transaction read it; else the transaction function is run again, until the
\* attempts are used up and runTransaction rejects (caught and logged).
FbCommit(c) ==
  /\ fbTasks[c].pc = "commit"
  /\ LET t == fbTasks[c]
         id == DocId(t.identity)
     IN \E outcome \in {"ok", "error"} :
          IF outcome = "error"
          THEN /\ fbTasks' = [fbTasks EXCEPT ![c] = [@ EXCEPT !.pc = "done", !.outcome = "failed"]]
               /\ UNCHANGED docs
          ELSE IF DocSnapshot(id) = t.snapshot
          THEN /\ docs' = (id :> DocWrite(t.snapshot, t.identity, now)) @@ docs
               /\ fbTasks' = [fbTasks EXCEPT ![c] = [@ EXCEPT !.pc = "done", !.outcome = "committed"]]
          ELSE /\ UNCHANGED docs
               /\ fbTasks' = [fbTasks EXCEPT ![c] =
                    IF t.attempt < MaxTxnAttempts
                    THEN [@ EXCEPT !.pc = "get", !.attempt = @ + 1]
                    ELSE [@ EXCEPT !.pc = "done", !.outcome = "failed"]]
  /\ UNCHANGED <<config, now, ghFile, csvTasks, httpVars>>

\* ------------------------------------------------------------------ recordQuestion
\* The two fire-and-forget calls of the search handler, neither awaited:
\* trackUserQuestion(req.identity) and trackUserActivityInFirebase(req.identity).
SpawnLedgers(c, identity) ==
  /\ csvTasks' = [csvTasks EXCEPT ![c] = StartCsv(identity)]
  /\ fbTasks' = [fbTasks EXCEPT ![c] = StartFb(identity)]

\* ------------------------------------------------------------------ session credential
JWT_SECRET == "configured-secret"
OtherSecret == "another-secret"

\* A bearer value as the gate sees it: no Authorization header (""), a string
\* that is no JWT, or a JWT with its payload and the secret that signed it.
NoPayload ==
  [slack_user_token |-> "", slack_user_id |-> <<>>, slack_team_id |-> <<>>, user |-> <<>>,
   team |-> <<>>, iat |-> 0, exp |-> 0]
NoBearer == [form |-> "none", payload |-> NoPayload, signedWith |-> ""]
GarbageBearer == [form |-> "garbage", payload |-> NoPayload, signedWith |-> ""]

\* jwt.sign({slack_user_token, slack_user_id, slack_team_id, user, team},
\*          secret, {expiresIn: TOKEN_TTL_SECONDS}) at time t.
JwtSign(userToken, user_id, team_id, user, team, secret, t) ==
  [form |-> "jwt",
   payload |-> [slack_user_token |-> userToken, slack_user_id |-> user_id,
                slack_team_id |-> team_id, user |-> user, team |-> team,
                iat |-> t, exp |-> t + TOKEN_TTL_SECONDS],
   signedWith |-> secret]

\* jwt.verify called with ignoreExpiration: the signature alone decides.
JwtVerifiesIgnoringExpiry(bearer, secret, t) ==
  /\ bearer.form = "jwt"
  /\ bearer.signedWith = secret

\* jwt.verify(bearer, secret) at time t does not throw: a well-formed JWT,
\* signed with the secret, whose exp is still ahead of the clock.
JwtVerifies(bearer, secret, t) ==
  /\ bearer.form = "jwt"
  /\ bearer.signedWith = secret
  /\ t < bearer.payload.exp

\* req.identity built with the two ids taken from each other's claim.
DecodedIdentitySwapped(decoded) ==
  [user_id |-> decoded.slack_team_id, team_id |-> decoded.slack_user_id,
   user |-> decoded.user, team |-> decoded.team]

\* req.identity as requireAuth builds it from the decoded payload.
DecodedIdentity(decoded) ==
  [user_id |-> decoded.slack_user_id, team_id |-> decoded.slack_team_id,
   user |-> decoded.user, team |-> decoded.team]

\* ------------------------------------------------------------------ presence registry
\* key = `${team_id}:${user_id}` of USERS; userKey(team_id, user_id) of Redis.
CacheKey(team_id, user_id) == team_id \o <<Colon>> \o user_id
userKey(team_id, user_id) == <<"user", Colon>> \o team_id \o <<Colon>> \o user_id

NoRecords == [k \in {} |-> 0]

\* redis.hset(key, fields): the fields are written over the hash, created if absent.
RedisHset(db, key, fields) ==
  [db EXCEPT !.hash =
     (key :> (IF key \in DOMAIN db.hash THEN fields @@ db.hash[key] ELSE fields)) @@ db.hash]
\* redis.exists(key)
RedisExists(db, key) == key \in DOMAIN db.hash
\* redis.sadd("users:index", key)
RedisSadd(db, key) == [db EXCEPT !.index = @ \cup {key}]
\* redis.expire(kRedis, 60 * 60 * 24 * 90)
REDIS_TTL_SECONDS == 60 * 60 * 24 * 90

\* redis.expire(key, seconds) at time t: an existing key gets the deadline
\* t + seconds, which replaces the one it had.
RedisExpire(db, key, t) ==
  IF key \in DOMAIN db.hash
  THEN [db EXCEPT !.expiring = (key :> (t + REDIS_TTL_SECONDS)) @@ @]
  ELSE db

\* The store at time t: the keys whose deadline has come are gone.
RedisPurge(db, t) ==
  LET gone == {k \in DOMAIN db.expiring : db.expiring[k] <= t}
  IN [db EXCEPT !.hash = [k \in (DOMAIN db.hash) \ gone |-> db.hash[k]],
                !.expiring = [k \in (DOMAIN db.expiring) \ gone |-> db.expiring[k]]]

\* The instants at which a key that got its TTL at the start, or one second
\* on, is gone.
RetentionPoints == {REDIS_TTL_SECONDS, REDIS_TTL_SECONDS + 1}

\* The clock reaches one of those instants; the keys whose deadline has come
\* are no longer in the store.
TickRetention ==
  /\ \E t \in RetentionPoints : t > now /\ now' = t /\ redisDb' = RedisPurge(redisDb, t)
  /\ UNCHANGED <<config, ghFile, docs, csvTasks, fbTasks, USERS, reqs, issued>>

\* ------------------------------------------------------------------ HTTP requests
ReqIds == 1..MaxReqs

\* The answers of Slack's oauth.v2.access and auth.test, and the JSON bodies
\* of search.messages.
SlackTokens == {"xoxp-1", "xoxp-2"}
NoSlackResp == [ok |-> FALSE, access_token |-> ""]
AccessResponses ==
  {[ok |-> TRUE, access_token |-> tok] : tok \in SlackTokens}
    \cup {[ok |-> TRUE, access_token |-> ""], NoSlackResp}
NoIdentity == [team_id |-> <<>>, team |-> <<>>, user_id |-> <<>>, user |-> <<>>]
NoIdResp == [ok |-> FALSE, identity |-> NoIdentity]
\* The user a Slack user token belongs to.
SlackUserOf(tok) == IF tok = "xoxp-1" THEN IdAnn ELSE IdBob
\* auth.test called with a token: the token's user, or not ok.
AuthTestResponses(tok) == {[ok |-> TRUE, identity |-> SlackUserOf(tok)], NoIdResp}
SearchPayloads == {"{ok:true,messages}", "{ok:false,error}"}
\* The JSON bodies of conversations.replies.
ThreadPayloads == {"{ok:true,replies}", "{ok:false,thread_error}"}

IdleReq ==
  [kind |-> "none", pc |-> "idle", bearer |-> NoBearer,
   slackResp |-> NoSlackResp, idResp |-> NoIdResp, t |-> 0,
   authed |-> FALSE, identity |-> NoIdentity, slackUserToken |-> "",
   resp |-> "", status |-> 0, error |-> "", details |-> <<>>, json |-> "",
   access_token |-> NoBearer,
   accessCalls |-> 0, authTestCalls |-> 0, searchCalls |-> 0, csvCalls |-> 0, fbCalls |-> 0,
   channel |-> FALSE, ts |-> FALSE, threadCalls |-> 0,
   header |-> "", keys |-> {}, users |-> NoRecords, persistent |-> FALSE]

\* Requests are numbered in the order they arrive.
Arrives(r) ==
  /\ reqs[r].pc = "idle"
  /\ \A q \in ReqIds : q < r => reqs[q].pc # "idle"

\* res.status(status).json({error}) ends the request.
ReplyError(req, status, error) ==
  [req EXCEPT !.pc = "done", !.status = status, !.error = error]

\* The async handler's promise rejects (an awaited call threw outside any
\* try): the handler sends no response and runs no further.
Rejects(req) == [req EXCEPT !.pc = "rejected"]

\* ---- POST /oauth/token
\* The request arrives: 400 without code or redirect_uri, else the code is
\* sent to oauth.v2.access.
TokenStart(r) ==
  /\ Arrives(r)
  /\ \E complete \in BOOLEAN :
       reqs' = [reqs EXCEPT ![r] =
         IF ~complete
         THEN ReplyError([@ EXCEPT !.kind = "token"], 400,
                         "missing code or redirect_uri")
         ELSE [@ EXCEPT !.kind = "token", !.pc = "access", !.accessCalls = @ + 1]]
  /\ UNCHANGED <<config, now, ghFile, docs, csvTasks, fbTasks, USERS, redisDb, issued>>

\* A handler that sends the code to oauth.v2.access again after a failure.
OauthFailedRetry(req, slackResp) ==
  [req EXCEPT !.slackResp = slackResp, !.accessCalls = @ + 1]

\* res.status(400).json({ error: "slack_oauth_failed", details: slackResp })
OauthFailed(req, slackResp) ==
  ReplyError([req EXCEPT !.slackResp = slackResp, !.details = <<slackResp>>],
             400, "slack_oauth_failed")

\* res.status(400).json({ error: "auth_test_failed", details: idResp })
AuthTestFailed(req, idResp) ==
  ReplyError([req EXCEPT !.idResp = idResp, !.details = <<idResp>>],
             400, "auth_test_failed")

\* oauth.v2.access answers (or the call fails): 400 unless ok with a user
\* token, else auth.test is called with that token.
TokenAccess(r) ==
  /\ reqs[r].kind = "token" /\ reqs[r].pc = "access"
  /\ \/ \E slackResp \in AccessResponses :
          reqs' = [reqs EXCEPT ![r] =
            IF ~slackResp.ok \/ slackResp.access_token = ""
            THEN OauthFailed(@, slackResp)
            ELSE [@ EXCEPT !.slackResp = slackResp, !.pc = "authtest",
                           !.authTestCalls = @ + 1]]
     \/ reqs' = [reqs EXCEPT ![r] = Rejects(@)]
  /\ UNCHANGED <<config, now, ghFile, docs, csvTasks, fbTasks, USERS, redisDb, issued>>

\* 3) Update in-memory registry.
UsersConnect(users, identity, t) ==
  LET key == CacheKey(identity.team_id, identity.user_id)
  IN IF key \notin DOMAIN users
     THEN (key :> [connected_at |-> t, last_seen |-> t, team_id |-> identity.team_id,
                   team |-> identity.team, user_id |-> identity.user_id,
                   user |-> identity.user]) @@ users
     ELSE [users EXCEPT ![key].last_seen = t]

\* 5) Mint JWT including identity, 6) the standard OAuth token payload.
MintAndReply(req) ==
  LET id == req.idResp.identity
      access_token == JwtSign(req.slackResp.access_token, id.user_id, id.team_id,
                              id.user, id.team, JWT_SECRET, now)
  IN [req EXCEPT !.pc = "done", !.status = 200, !.access_token = access_token]

TokenFinish(r, req) ==
  /\ reqs' = [reqs EXCEPT ![r] = MintAndReply(req)]
  /\ issued' = issued \cup {MintAndReply(req).access_token}

\* auth.test answers (or the call fails): 400 unless ok; else the identity is
\* recorded in USERS and, with Redis, redis.exists is awaited; without Redis
\* the credential is minted and returned.
TokenAuthTest(r) ==
  /\ reqs[r].kind = "token" /\ reqs[r].pc = "authtest"
  /\ \/ \E idResp \in AuthTestResponses(reqs[r].slackResp.access_token) :
          IF ~idResp.ok
          THEN /\ reqs' = [reqs EXCEPT ![r] = AuthTestFailed(@, idResp)]
               /\ UNCHANGED <<USERS, issued>>
          ELSE /\ USERS' = UsersConnect(USERS, idResp.identity, now)
               /\ IF config.redis
                  THEN /\ reqs' = [reqs EXCEPT ![r] =
                            [@ EXCEPT !.idResp = idResp, !.t = now, !.pc = "exists"]]
                       /\ UNCHANGED issued
                  ELSE TokenFinish(r, [reqs[r] EXCEPT !.idResp = idResp, !.t = now])
     \/ /\ reqs' = [reqs EXCEPT ![r] = Rejects(@)]
        /\ UNCHANGED <<USERS, issued>>
  /\ UNCHANGED <<config, now, ghFile, docs, csvTasks, fbTasks, redisDb>>

\* 4) Persist (if Redis configured): the five awaited commands, one action
\* each.  A command that fails rejects the handler's promise.
TokenRedisKey(r) ==
  userKey(reqs[r].idResp.identity.team_id, reqs[r].idResp.identity.user_id)

TokenExists(r) ==
  /\ reqs[r].kind = "token" /\ reqs[r].pc = "exists"
  /\ \/ reqs' = [reqs EXCEPT ![r] =
          [@ EXCEPT !.pc = IF RedisExists(redisDb, TokenRedisKey(r))
                           THEN "hsetSeen" ELSE "hsetAll"]]
     \/ reqs' = [reqs EXCEPT ![r] = Rejects(@)]
  /\ UNCHANGED <<config, now, ghFile, docs, csvTasks, fbTasks, USERS, redisDb, issued>>

TokenHsetAll(r) ==
  /\ reqs[r].kind = "token" /\ reqs[r].pc = "hsetAll"
  /\ \/ LET id == reqs[r].idResp.identity
        IN /\ redisDb' = RedisHset(redisDb, TokenRedisKey(r),
                [connected_at |-> reqs[r].t, team_id |-> id.team_id, team |-> id.team,
                 user_id |-> id.user_id, user |-> id.user])
           /\ reqs' = [reqs EXCEPT ![r] = [@ EXCEPT !.pc = "hsetSeen"]]
     \/ /\ reqs' = [reqs EXCEPT ![r] = Rejects(@)]
        /\ UNCHANGED redisDb
  /\ UNCHANGED <<config, now, ghFile, docs, csvTasks, fbTasks, USERS, issued>>

TokenHsetSeen(r) ==
  /\ reqs[r].kind = "token" /\ reqs[r].pc = "hsetSeen"
  /\ \/ /\ redisDb' = RedisHset(redisDb, TokenRedisKey(r), [last_seen |-> reqs[r].t])
        /\ reqs' = [reqs EXCEPT ![r] = [@ EXCEPT !.pc = "sadd"]]
     \/ /\ reqs' = [reqs EXCEPT ![r] = Rejects(@)]
        /\ UNCHANGED redisDb
  /\ UNCHANGED <<config, now, ghFile, docs, csvTasks, fbTasks, USERS, issued>>

TokenSadd(r) ==
  /\ reqs[r].kind = "token" /\ reqs[r].pc = "sadd"
  /\ \/ /\ redisDb' = RedisSadd(redisDb, TokenRedisKey(r))
        /\ reqs' = [reqs EXCEPT ![r] = [@ EXCEPT !.pc = "expire"]]
     \/ /\ reqs' = [reqs EXCEPT ![r] = Rejects(@)]
        /\ UNCHANGED redisDb
  /\ UNCHANGED <<config, now, ghFile, docs, csvTasks, fbTasks, USERS, issued>>

TokenExpire(r) ==
  /\ reqs[r].kind = "token" /\ reqs[r].pc = "expire"
  /\ \/ /\ redisDb' = RedisExpire(redisDb, TokenRedisKey(r), now)
        /\ TokenFinish(r, reqs[r])
     \/ /\ reqs' = [reqs EXCEPT ![r] = Rejects(@)]
        /\ UNCHANGED <<redisDb, issued>>
  /\ UNCHANGED <<config, now, ghFile, docs, csvTasks, fbTasks, USERS>>

\* ---- requireAuth
\* The bearer values a client can present: none, a string that is no JWT, a
\* credential the token endpoint issued, and a fresh credential signed with
\* another secret.
Bearers ==
  {NoBearer, GarbageBearer} \cup issued
    \cup {JwtSign("xoxp-1", IdAnn.user_id, IdAnn.team_id, IdAnn.user, IdAnn.team,
                  OtherSecret, now)}

\* const rec = USERS.get(key); if (rec) rec.last_seen = t
UsersTouch(users, identity, t) ==
  LET key == CacheKey(identity.team_id, identity.user_id)
  IN IF key \in DOMAIN users THEN [users EXCEPT ![key].last_seen = t] ELSE users

\* next(): the search handler runs to its first await, the call of
\* search.messages with the Slack token of the credential.
EnterSearch(req) == [req EXCEPT !.pc = "upstream", !.searchCalls = @ + 1]

\* A thread handler that calls conversations.replies whatever the query holds.
EnterThreadUnchecked(req) == [req EXCEPT !.pc = "replies", !.threadCalls = @ + 1]

\* next(): the thread handler runs to its first await: 400 when channel or ts
\* is missing, else the call of conversations.replies.
EnterThread(req) ==
  IF ~req.channel \/ ~req.ts
  THEN ReplyError(req, 400, "missing channel or ts")
  ELSE [req EXCEPT !.pc = "replies", !.threadCalls = @ + 1]

\* next(): the handler of the route the request came in on.
EnterHandler(req) == IF req.kind = "thread" THEN EnterThread(req) ELSE EnterSearch(req)

\* GET /slack/search arrives and requireAuth runs: 401 when jwt.verify throws;
\* else the identity and the Slack token are attached, the cached record is
\* touched and, with Redis, the hset of last_seen is awaited before next().
SearchStart(r, bearer) ==
  /\ Arrives(r)
  /\ LET req == [reqs[r] EXCEPT !.kind = "search", !.bearer = bearer, !.t = now]
     IN IF ~JwtVerifies(bearer, JWT_SECRET, now)
        THEN /\ reqs' = [reqs EXCEPT ![r] = ReplyError(req, 401, "unauthorized")]
             /\ UNCHANGED USERS
        ELSE LET decoded == bearer.payload
                 passed == [req EXCEPT !.authed = TRUE,
                                       !.slackUserToken = decoded.slack_user_token,
                                       !.identity = DecodedIdentity(decoded)]
             IN /\ USERS' = UsersTouch(USERS, DecodedIdentity(decoded), now)
                /\ reqs' = [reqs EXCEPT ![r] =
                     IF config.redis THEN [passed EXCEPT !.pc = "gateHset"]
                     ELSE EnterSearch(passed)]
  /\ UNCHANGED <<config, now, ghFile, docs, csvTasks, fbTasks, redisDb, issued>>

\* A client sends GET /slack/search with one of the bearer values.
SearchArrives(r) == \E bearer \in Bearers : SearchStart(r, bearer)

\* await redis.hset(userKey(...), { last_seen: t }) returns, and next() is
\* called; or it throws inside the try, and the catch answers 401.
GateHset(r) ==
  /\ reqs[r].pc = "gateHset"
  /\ \/ /\ redisDb' = RedisHset(redisDb,
                        userKey(reqs[r].identity.team_id, reqs[r].identity.user_id),
                        [last_seen |-> reqs[r].t])
        /\ reqs' = [reqs EXCEPT ![r] = EnterHandler(@)]
     \/ /\ reqs' = [reqs EXCEPT ![r] = ReplyError(@, 401, "unauthorized")]
        /\ UNCHANGED redisDb
  /\ UNCHANGED <<config, now, ghFile, docs, csvTasks, fbTasks, USERS, issued>>

\* ---- GET /slack/search
\* A facade that answers with a success body of its own instead of resp.
SearchReplyOwnBody(req) ==
  [req EXCEPT !.pc = "done", !.status = 200, !.json = "{ok:true,messages}",
              !.csvCalls = @ + 1, !.fbCalls = @ + 1]

\* trackUserQuestion(req.identity), trackUserActivityInFirebase(req.identity)
\* are called and return res.json(resp) answers with the body awaited in resp.
SearchReply(req) ==
  [req EXCEPT !.pc = "done", !.status = 200, !.json = req.resp,
              !.csvCalls = @ + 1, !.fbCalls = @ + 1]

\* search.messages answers with a JSON body: both ledgers are called, not
\* awaited, and the body is returned.  Or the call fails (the fetch rejects,
\* or the body is no JSON): the awaited promise throws outside any try.
SearchUpstream(r) ==
  /\ reqs[r].kind = "search" /\ reqs[r].pc = "upstream"
  /\ \/ \E resp \in SearchPayloads :
          /\ SpawnLedgers(r, reqs[r].identity)
          /\ reqs' = [reqs EXCEPT ![r] = SearchReply([@ EXCEPT !.resp = resp])]
     \/ /\ reqs' = [reqs EXCEPT ![r] = Rejects(@)]
        /\ UNCHANGED <<csvTasks, fbTasks>>
  /\ UNCHANGED <<config, now, ghFile, docs, USERS, redisDb, issued>>

\* ---- GET /slack/thread
\* GET /slack/thread arrives with or without channel and ts, and requireAuth
\* runs as it does for a search.
ThreadStart(r, bearer, channel, ts) ==
  /\ Arrives(r)
  /\ LET req == [reqs[r] EXCEPT !.kind = "thread", !.bearer = bearer, !.t = now,
                                !.channel = channel, !.ts = ts]
     IN IF ~JwtVerifies(bearer, JWT_SECRET, now)
        THEN /\ reqs' = [reqs EXCEPT ![r] = ReplyError(req, 401, "unauthorized")]
             /\ UNCHANGED USERS
        ELSE LET decoded == bearer.payload
                 passed == [req EXCEPT !.authed = TRUE,
                                       !.slackUserToken = decoded.slack_user_token,
                                       !.identity = DecodedIdentity(decoded)]
             IN /\ USERS' = UsersTouch(USERS, DecodedIdentity(decoded), now)
                /\ reqs' = [reqs EXCEPT ![r] =
                     IF config.redis THEN [passed EXCEPT !.pc = "gateHset"]
                     ELSE EnterThread(passed)]
  /\ UNCHANGED <<config, now, ghFile, docs, csvTasks, fbTasks, redisDb, issued>>

\* A client sends GET /slack/thread with one of the bearer values.
ThreadArrives(r) ==
  \E bearer \in Bearers, channel \in BOOLEAN, ts \in BOOLEAN :
    ThreadStart(r, bearer, channel, ts)

\* A thread handler that records the question as the search handler does.
ThreadLedgersSpawned(c, identity) ==
  /\ csvTasks' = [csvTasks EXCEPT ![c] = StartCsv(identity)]
  /\ fbTasks' = [fbTasks EXCEPT ![c] = StartFb(identity)]

\* The thread handler calls neither tracker.
ThreadLedgers(c, identity) == UNCHANGED <<csvTasks, fbTasks>>

\* conversations.replies answers with a JSON body, which is returned; or the
\* call fails and the awaited promise throws outside any try.
ThreadUpstream(r) ==
  /\ reqs[r].kind = "thread" /\ reqs[r].pc = "replies"
  /\ \/ \E resp \in ThreadPayloads :
          reqs' = [reqs EXCEPT ![r] =
            [@ EXCEPT !.pc = "done", !.status = 200, !.resp = resp, !.json = resp]]
     \/ reqs' = [reqs EXCEPT ![r] = Rejects(@)]
  /\ ThreadLedgers(r, reqs[r].identity)
  /\ UNCHANGED <<config, now, ghFile, docs, USERS, redisDb, issued>>

\* ---- GET /admin/users
\* The values of the x-admin-key header: absent, the key of the admin spec's
\* configuration, and another one.
AdminKey == "admin-secret"
AdminHeaders == {"", AdminKey, "guess"}

\* res.json({ users, persistent }): users holds, under the key each came
\* from, the records the response lists.
AdminReply(req, users, persistent) ==
  [req EXCEPT !.pc = "done", !.status = 200, !.users = users, !.persistent = persistent]

\* A listing that answers from the in-process cache whatever is configured.
AdminListedFromCache(req, k) ==
  LET key == CacheKey(SubSeq(k, 3, 3), SubSeq(k, 5, 5))
  IN [req EXCEPT !.keys = @ \ {k},
                 !.users = IF key \in DOMAIN USERS THEN (k :> USERS[key]) @@ @ ELSE @]

\* const h = await redis.hgetall(k); if (h) users.push(h)
AdminListed(req, k) ==
  [req EXCEPT !.keys = @ \ {k},
              !.users = IF k \in DOMAIN redisDb.hash THEN (k :> redisDb.hash[k]) @@ @ ELSE @]

\* GET /admin/users arrives: 401 unless ADMIN_KEY is set and the header equals
\* it; then, with Redis, users:index is read, else the values of USERS are
\* returned.
AdminStart(r, header) ==
  /\ Arrives(r)
  /\ LET req == [reqs[r] EXCEPT !.kind = "admin", !.header = header, !.t = now]
     IN reqs' = [reqs EXCEPT ![r] =
          IF config.ADMIN_KEY = "" \/ header # config.ADMIN_KEY
          THEN ReplyError(req, 401, "unauthorized")
          ELSE IF config.redis THEN [req EXCEPT !.pc = "smembers"]
          ELSE AdminReply(req, USERS, FALSE)]
  /\ UNCHANGED <<config, now, ghFile, docs, csvTasks, fbTasks, USERS, redisDb, issued>>

AdminArrives(r) == \E header \in AdminHeaders : AdminStart(r, header)

\* await redis.smembers("users:index") returns the keys, and the loop starts
\* (with no key the response is sent); or the call fails and the handler's
\* promise rejects.
AdminSmembers(r) ==
  /\ reqs[r].kind = "admin" /\ reqs[r].pc = "smembers"
  /\ \/ reqs' = [reqs EXCEPT ![r] =
          IF redisDb.index = {} THEN AdminReply(@, NoRecords, TRUE)
          ELSE [@ EXCEPT !.pc = "hgetall", !.keys = redisDb.index]]
     \/ reqs' = [reqs EXCEPT ![r] = Rejects(@)]
  /\ UNCHANGED <<config, now, ghFile, docs, csvTasks, fbTasks, USERS, redisDb, issued>>

\* await redis.hgetall(k) returns for the next key: its record is pushed when
\* there is one; after the last key the response is sent.
AdminHgetall(r) ==
  /\ reqs[r].kind = "admin" /\ reqs[r].pc = "hgetall"
  /\ \/ \E k \in reqs[r].keys :
          LET listed == AdminListed(reqs[r], k)
          IN reqs' = [reqs EXCEPT ![r] =
               IF listed.keys = {} THEN AdminReply(listed, listed.users, TRUE) ELSE listed]
     \/ reqs' = [reqs EXCEPT ![r] = Rejects(@)]
  /\ UNCHANGED <<config, now, ghFile, docs, csvTasks, fbTasks, USERS, redisDb, issued>>

\* trackUserQuestion(identity) called on its own, call ids taken in order.
CallTrackUserQuestion(c, identity) ==
  /\ c <= MaxCalls
  /\ csvTasks[c].pc = "idle"
  /\ \A b \in CallIds : b < c => csvTasks[b].pc # "idle"
  /\ csvTasks' = [csvTasks EXCEPT ![c] = StartCsv(identity)]
  /\ UNCHANGED <<config, now, ghFile, docs, fbTasks, httpVars>>

\* trackUserActivityInFirebase(identity) called on its own, call ids taken in order.
CallTrackUserActivity(c, identity) ==
  /\ c <= MaxCalls
  /\ fbTasks[c].pc = "idle"
  /\ \A b \in CallIds : b < c => fbTasks[b].pc # "idle"
  /\ fbTasks' = [fbTasks EXCEPT ![c] = StartFb(identity)]
  /\ UNCHANGED <<config, now, ghFile, docs, csvTasks, httpVars>>

\* ------------------------------------------------------------------ specifications
Init ==
  /\ config \in [redis : BOOLEAN, github : BOOLEAN, firestore : BOOLEAN, ADMIN_KEY : {""}]
  /\ now = 0
  /\ ghFile \in {[exists |-> FALSE, content |-> <<>>], [exists |-> TRUE, content |-> <<>>]}
  /\ docs = NoDocs
  /\ csvTasks = [c \in CallIds |-> IdleCsv]
  /\ fbTasks = [c \in CallIds |-> IdleFb]
  /\ USERS = NoRecords
  /\ redisDb = [hash |-> NoRecords, index |-> {}, expiring |-> NoRecords]
  /\ reqs = [r \in ReqIds |-> IdleReq]
  /\ issued = {}

\* The file ledger on its own: trackUserQuestion calls, for any identities, in
\* any interleaving.  It reads no clock and only the GitHub part of the
\* configuration.
CsvInit == Init /\ ~config.redis /\ ~config.firestore
CsvNext ==
  \/ \E c \in CallIds, identity \in Identities : CallTrackUserQuestion(c, identity)
  \/ \E c \in CallIds : CsvRead(c)
  \/ \E c \in CallIds : CsvWrite(c)
SpecCsv == CsvInit /\ [][CsvNext]_vars

\* The document ledger on its own: trackUserActivityInFirebase calls, for any
\* identities, in any interleaving, while the clock runs.
FbInit == Init /\ ~config.redis /\ ~config.github /\ ~ghFile.exists
FbNext ==
  \/ Tick
  \/ \E c \in CallIds, identity \in Identities : CallTrackUserActivity(c, identity)
  \/ \E c \in CallIds : FbGet(c)
  \/ \E c \in CallIds : FbCommit(c)
SpecFb == FbInit /\ [][FbNext]_vars

\* The process is restarted between requests: the module is loaded again and
\* USERS is a new, empty Map.  The credentials clients hold and the remote
\* stores are not affected.
Restart ==
  /\ USERS # NoRecords
  /\ \A r \in ReqIds : reqs[r].pc \in {"idle", "done", "rejected"}
  /\ \A c \in CallIds : csvTasks[c].pc \in {"idle", "done"} /\ fbTasks[c].pc \in {"idle", "done"}
  /\ USERS' = NoRecords
  /\ UNCHANGED <<config, now, ghFile, docs, csvTasks, fbTasks, redisDb, reqs, issued>>

\* The presence registry: token exchanges and searches with and without
\* Redis, the process restarting between requests, neither ledger configured.
PresenceInit == Init /\ ~config.github /\ ~config.firestore /\ ~ghFile.exists
PresenceNext ==
  \/ Tick
  \/ Restart
  \/ \E r \in ReqIds : TokenStart(r)
  \/ \E r \in ReqIds : TokenAccess(r)
  \/ \E r \in ReqIds : TokenAuthTest(r)
  \/ \E r \in ReqIds : TokenExists(r)
  \/ \E r \in ReqIds : TokenHsetAll(r)
  \/ \E r \in ReqIds : TokenHsetSeen(r)
  \/ \E r \in ReqIds : TokenSadd(r)
  \/ \E r \in ReqIds : TokenExpire(r)
  \/ \E r \in ReqIds : SearchArrives(r)
  \/ \E r \in ReqIds : GateHset(r)
  \/ \E r \in ReqIds : SearchUpstream(r)
  \/ \E c \in ReqIds : CsvRead(c)
  \/ \E c \in ReqIds : CsvWrite(c)
SpecPresence == PresenceInit /\ [][PresenceNext]_vars

\* The admin listing: token exchanges fill the registry, the clock runs up to
\* the retention time of the remote records, and GET /admin/users is called
\* with and without ADMIN_KEY and Redis configured.
AdminInit ==
  /\ config \in [redis : BOOLEAN, github : {FALSE}, firestore : {FALSE},
                 ADMIN_KEY : {"", AdminKey}]
  /\ now = 0
  /\ ghFile = [exists |-> FALSE, content |-> <<>>]
  /\ docs = NoDocs
  /\ csvTasks = [c \in CallIds |-> IdleCsv]
  /\ fbTasks = [c \in CallIds |-> IdleFb]
  /\ USERS = NoRecords
  /\ redisDb = [hash |-> NoRecords, index |-> {}, expiring |-> NoRecords]
  /\ reqs = [r \in ReqIds |-> IdleReq]
  /\ issued = {}
AdminNext ==
  \/ Tick
  \/ TickRetention
  \/ \E r \in ReqIds : TokenStart(r)
  \/ \E r \in ReqIds : TokenAccess(r)
  \/ \E r \in ReqIds : TokenAuthTest(r)
  \/ \E r \in ReqIds : TokenExists(r)
  \/ \E r \in ReqIds : TokenHsetAll(r)
  \/ \E r \in ReqIds : TokenHsetSeen(r)
  \/ \E r \in ReqIds : TokenSadd(r)
  \/ \E r \in ReqIds : TokenExpire(r)
  \/ \E r \in ReqIds : AdminArrives(r)
  \/ \E r \in ReqIds : AdminSmembers(r)
  \/ \E r \in ReqIds : AdminHgetall(r)
SpecAdmin == AdminInit /\ [][AdminNext]_vars

\* The remote registry under all of its writers: token exchanges, requests
\* passing the gate, and the expiry of the keys' TTL.
RegistryInit == PresenceInit /\ config.redis
RegistryNext ==
  \/ Tick
  \/ TickRetention
  \/ \E r \in ReqIds : TokenStart(r)
  \/ \E r \in ReqIds : TokenAccess(r)
  \/ \E r \in ReqIds : TokenAuthTest(r)
  \/ \E r \in ReqIds : TokenExists(r)
  \/ \E r \in ReqIds : TokenHsetAll(r)
  \/ \E r \in ReqIds : TokenHsetSeen(r)
  \/ \E r \in ReqIds : TokenSadd(r)
  \/ \E r \in ReqIds : TokenExpire(r)
  \/ \E r \in ReqIds : SearchArrives(r)
  \/ \E r \in ReqIds : GateHset(r)
  \/ \E r \in ReqIds : SearchUpstream(r)
  \/ \E c \in ReqIds : CsvRead(c)
  \/ \E c \in ReqIds : CsvWrite(c)
SpecRegistry == RegistryInit /\ [][RegistryNext]_vars

\* The thread facade beside the search facade: exchanges, searches and thread
\* requests with both ledgers as configured, Redis configured or not.
ThreadNext ==
  \/ Tick
  \/ \E r \in ReqIds : TokenStart(r)
  \/ \E r \in ReqIds : TokenAccess(r)
  \/ \E r \in ReqIds : TokenAuthTest(r)
  \/ \E r \in ReqIds : TokenExists(r)
  \/ \E r \in ReqIds : TokenHsetAll(r)
  \/ \E r \in ReqIds : TokenHsetSeen(r)
  \/ \E r \in ReqIds : TokenSadd(r)
  \/ \E r \in ReqIds : TokenExpire(r)
  \/ \E r \in ReqIds : SearchArrives(r)
  \/ \E r \in ReqIds : ThreadArrives(r)
  \/ \E r \in ReqIds : GateHset(r)
  \/ \E r \in ReqIds : SearchUpstream(r)
  \/ \E r \in ReqIds : ThreadUpstream(r)
  \/ \E c \in ReqIds : CsvRead(c)
  \/ \E c \in ReqIds : CsvWrite(c)
  \/ \E c \in ReqIds : FbGet(c)
  \/ \E c \in ReqIds : FbCommit(c)
SpecThread == Init /\ [][ThreadNext]_vars

\* The proxy: token exchanges and searches arriving in any order, each handler
\* suspended at its awaits, the ledger calls of the searches running beside
\* them, and the clock.
Next ==
  \/ Tick
  \/ \E r \in ReqIds : TokenStart(r)
  \/ \E r \in ReqIds : TokenAccess(r)
  \/ \E r \in ReqIds : TokenAuthTest(r)
  \/ \E r \in ReqIds : TokenExists(r)
  \/ \E r \in ReqIds : TokenHsetAll(r)
  \/ \E r \in ReqIds : TokenHsetSeen(r)
  \/ \E r \in ReqIds : TokenSadd(r)
  \/ \E r \in ReqIds : TokenExpire(r)
  \/ \E r \in ReqIds : SearchArrives(r)
  \/ \E r \in ReqIds : GateHset(r)
  \/ \E r \in ReqIds : SearchUpstream(r)
  \/ \E c \in ReqIds : CsvRead(c)
  \/ \E c \in ReqIds : CsvWrite(c)
  \/ \E c \in ReqIds : FbGet(c)
  \/ \E c \in ReqIds : FbCommit(c)
Spec == Init /\ [][Next]_vars

\* ------------------------------------------------------------------ properties
\* A credential as jwt.verify has to judge it at time t, told from its parts:
\* its form, the secret that signed it, and its issue time.
ValidCredential(b, t) ==
  /\ b.form = "jwt"
  /\ b.signedWith = JWT_SECRET
  /\ t < b.payload.iat + TOKEN_TTL_SECONDS
InvalidCredential(b, t) == ~ValidCredential(b, t)

\* ---- C1
C1_Refused(r) ==
  (reqs[r].pc = "idle" /\ reqs'[r].kind = "search"
     /\ InvalidCredential(reqs'[r].bearer, now))
    => /\ reqs'[r].pc = "done" /\ reqs'[r].status = 401
       /\ reqs'[r].searchCalls = 0 /\ reqs'[r].csvCalls = 0 /\ reqs'[r].fbCalls = 0
       /\ csvTasks'[r] = IdleCsv /\ fbTasks'[r] = IdleFb
       /\ USERS' = USERS /\ redisDb' = redisDb
C1_Stopped(r) ==
  (reqs[r].kind = "search" /\ reqs[r].pc = "done"
     /\ InvalidCredential(reqs[r].bearer, reqs[r].t))
    => reqs'[r] = reqs[r] /\ csvTasks'[r] = csvTasks[r] /\ fbTasks'[r] = fbTasks[r]

\* C1: a /slack/search request whose bearer credential is absent, malformed,
\* signed with another secret or expired is answered 401 in the step it
\* arrives and stops there: no upstream search call, no call of either ledger,
\* USERS and the Redis records unchanged, and nothing happens for it later.
C1_UnauthorizedStops == [][\A r \in ReqIds : C1_Refused(r) /\ C1_Stopped(r)]_vars

\* C1 witness: a credential the token endpoint issued is presented after its
\* expiry, while its user's presence record exists, and is answered 401.
C1_ExpiredRefused ==
  \E r \in ReqIds :
    /\ reqs[r].kind = "search" /\ reqs[r].status = 401
    /\ reqs[r].bearer \in issued
    /\ reqs[r].t >= reqs[r].bearer.payload.iat + TOKEN_TTL_SECONDS
    /\ CacheKey(reqs[r].bearer.payload.slack_team_id, reqs[r].bearer.payload.slack_user_id)
         \in DOMAIN USERS

\* ---- C2
\* C2: a request that carries a valid, unexpired credential is never answered
\* 401, whatever the outcome of the remote last-seen write.
C2_ValidNeverUnauthorized ==
  \A r \in ReqIds :
    (reqs[r].kind = "search" /\ ValidCredential(reqs[r].bearer, reqs[r].t))
      => reqs[r].status # 401

\* ---- C3
\* C3: once the gate has decided, a /slack/search request went on to its
\* handler exactly when its credential is well-formed, signed with the
\* configured secret and presented before issued_at + 7 days.
C3_AcceptedIffValid ==
  \A r \in ReqIds :
    (reqs[r].kind = "search" /\ reqs[r].pc \notin {"idle", "gateHset"})
      => (reqs[r].searchCalls = 1 <=> ValidCredential(reqs[r].bearer, reqs[r].t))

\* ---- C4
\* C4: when the credential a successful exchange returned is presented to the
\* gate before its expiry, jwt.verify succeeds and the request carries exactly
\* the identity auth.test returned to that exchange and exactly the Slack user
\* token oauth.v2.access returned to it.
C4_DecodesToExchange ==
  \A q \in ReqIds, r \in ReqIds :
    (/\ reqs[q].kind = "token" /\ reqs[q].status = 200
     /\ reqs[r].kind = "search" /\ reqs[r].bearer = reqs[q].access_token
     /\ reqs[r].t < reqs[r].bearer.payload.iat + TOKEN_TTL_SECONDS)
      => /\ reqs[r].authed
         /\ reqs[r].identity.team_id = reqs[q].idResp.identity.team_id
         /\ reqs[r].identity.team = reqs[q].idResp.identity.team
         /\ reqs[r].identity.user_id = reqs[q].idResp.identity.user_id
         /\ reqs[r].identity.user = reqs[q].idResp.identity.user
         /\ reqs[r].slackUserToken = reqs[q].slackResp.access_token

\* C4 witness: the credential of an exchange for the second identity has been
\* verified by the gate at a later time.
C4_VerifiedLater ==
  \E q \in ReqIds, r \in ReqIds :
    /\ reqs[q].kind = "token" /\ reqs[q].status = 200
    /\ reqs[q].idResp.identity = IdBob
    /\ reqs[r].kind = "search" /\ reqs[r].bearer = reqs[q].access_token
    /\ reqs[r].authed /\ reqs[r].t > reqs[q].t

\* ---- C5
C5_Answered(r) ==
  (reqs[r].kind = "search" /\ reqs[r].pc = "upstream" /\ reqs'[r].pc = "done")
    => /\ reqs'[r].status = 200
       /\ reqs'[r].resp \in SearchPayloads /\ reqs'[r].json = reqs'[r].resp
       /\ csvTasks'[r].pc = "read" /\ csvTasks'[r].reads = 0 /\ csvTasks'[r].writes = 0
       /\ fbTasks'[r].outcome \in {"none", "skipped"}
C5_Settled(r) ==
  (reqs[r].kind = "search" /\ reqs[r].status = 200) => reqs'[r] = reqs[r]

\* C5: an authenticated /slack/search request is answered 200 with the JSON
\* body the upstream call returned, in the step that starts the two ledger
\* calls, before either has read or written anything; no later step of a
\* ledger, whatever its outcome, changes the answer.
C5_ResponseIsUpstream == [][\A r \in ReqIds : C5_Answered(r) /\ C5_Settled(r)]_vars

\* C5 witness: a search was answered with the upstream body while its file
\* ledger write was refused and its document ledger transaction failed.
C5_AnsweredLedgersFailed ==
  \E r \in ReqIds :
    /\ reqs[r].kind = "search" /\ reqs[r].status = 200
    /\ reqs[r].json = "{ok:false,error}"
    /\ csvTasks[r].outcome = "rejected" /\ fbTasks[r].outcome = "failed"

\* ---- C6
\* C6: every /slack/search request that passed the gate, once its handler has
\* ended, has called trackUserQuestion once and trackUserActivityInFirebase
\* once, whatever the upstream call did.
C6_LedgersCalledOnce ==
  \A r \in ReqIds :
    (reqs[r].kind = "search" /\ reqs[r].searchCalls = 1
       /\ reqs[r].pc \in {"done", "rejected"})
      => /\ reqs[r].csvCalls = 1 /\ reqs[r].fbCalls = 1
         /\ csvTasks[r].pc # "idle" /\ fbTasks[r].pc # "idle"

\* ---- C7
\* C7 as stated: a trackUserQuestion call that read a revision of the file and
\* whose PUT reached the store does not end with the PUT refused (it would be
\* retried until the increment is in the stored table).
C7_RefusedWriteRetried ==
  \A c \in CallIds :
    (csvTasks[c].pc = "done" /\ config.github /\ ~csvTasks[c].file.isNull
       /\ csvTasks[c].outcome # "failed")
      => csvTasks[c].outcome = "written"

C7_OneWrite(c) ==
  (csvTasks[c].pc = "write" /\ csvTasks'[c] # csvTasks[c])
    => /\ csvTasks'[c].pc = "done"
       /\ csvTasks'[c].reads <= 1 /\ csvTasks'[c].writes <= 1
       /\ IF csvTasks'[c].outcome = "written"
          THEN ghFile' = [exists |-> TRUE, content |-> csvTasks[c].newContent]
          ELSE ghFile' = ghFile
C7_Ended(c) == csvTasks[c].pc = "done" => csvTasks'[c] = csvTasks[c]

\* C7 amended: a refused (or failed) PUT is not retried.  Each call reads at
\* most once and writes at most once and ends with its PUT; the stored blob
\* becomes the call's table when the PUT is accepted and is left as it was
\* otherwise, and an ended call does nothing more.
C7_NoRetry == [][\A c \in CallIds : C7_OneWrite(c) /\ C7_Ended(c)]_vars

\* C7 witness: two calls for the same user read the same revision; the PUT of
\* one was accepted, the PUT of the other refused, and the stored table is the
\* first one's, so the second increment is lost.
C7_LostIncrement ==
  \E a \in CallIds, b \in CallIds :
    /\ a # b
    /\ csvTasks[a].pc = "done" /\ csvTasks[a].outcome = "written"
    /\ csvTasks[b].pc = "done" /\ csvTasks[b].outcome = "rejected"
    /\ ~csvTasks[b].file.isNull /\ csvTasks[b].file = csvTasks[a].file
    /\ csvTasks[a].identity = csvTasks[b].identity
    /\ ghFile.content = csvTasks[a].newContent

\* ---- C8
\* The data lines of a stored blob, the line of a user with n questions, and
\* the number a line ends with.
DataLines(content) ==
  IF content = <<>> THEN <<>> ELSE Tail(Split(content, Newline))
RowLine(identity, n) ==
  identity.user \o <<Comma>> \o identity.team \o <<Comma>> \o identity.user_id
    \o <<Comma>> \o identity.team_id \o <<Comma>> \o FormatInt(n)
LineQuestions(line) ==
  LET parts == Split(line, Comma) IN ParseIntOr0(parts[Len(parts)])
LineSet(lines) == {lines[i] : i \in 1..Len(lines)}
C8_Increment(c) ==
  \A n \in 1..MaxCalls :
    LET before == DataLines(ghFile.content)
        after == DataLines(ghFile'.content)
        id == csvTasks[c].identity
    IN (/\ csvTasks[c].pc = "write" /\ csvTasks'[c].outcome = "written"
        /\ RowLine(id, n) \in LineSet(before))
         => /\ Len(after) = Len(before)
            /\ LineSet(after) =
                 (LineSet(before) \ {RowLine(id, n)}) \cup {RowLine(id, n + 1)}
            /\ \A i \in 1..Len(after), j \in 1..Len(after) :
                 i < j => LineQuestions(after[i]) >= LineQuestions(after[j])

\* C8: when the stored table holds the row of user U with questions = N and a
\* trackUserQuestion call for U has its PUT accepted (so nobody wrote between
\* its read and its write), the stored table afterwards has U's row with N+1,
\* every other row as before, as many rows as before, ordered descending by
\* questions.
C8_IncrementsOwnRow == [][\A c \in CallIds : C8_Increment(c)]_vars

\* ---- C9
\* C9 as stated: a call that read no file or an empty file writes the header
\* and the one row of its user with questions = 1, and its PUT carries no sha.
C9_FirstWriteNoSha ==
  \A c \in CallIds :
    (config.github /\ csvTasks[c].pc = "done" /\ FileContent(csvTasks[c].file) = <<>>)
      => /\ csvTasks[c].newContent = CSV_HEADER \o RowLine(csvTasks[c].identity, 1)
         /\ csvTasks[c].sentSha = NoSha

\* C9 amended: a call that read no file or an empty file writes the header and
\* the one row of its user with questions = 1; its PUT carries no sha when the
\* read returned no file, and the sha of the empty blob when the read returned
\* the existing empty file.
C9_FirstWrite ==
  \A c \in CallIds :
    (config.github /\ csvTasks[c].pc = "done" /\ FileContent(csvTasks[c].file) = <<>>)
      => /\ csvTasks[c].newContent = CSV_HEADER \o RowLine(csvTasks[c].identity, 1)
         /\ csvTasks[c].sentSha =
              IF csvTasks[c].file.isNull THEN NoSha ELSE BlobSha(<<>>)

\* C9 witness: a call read the existing empty file and its PUT, carrying the
\* sha of the empty blob, stored the header and its user's row.
C9_EmptyFileWritten ==
  \E c \in CallIds :
    /\ csvTasks[c].pc = "done" /\ csvTasks[c].outcome = "written"
    /\ ~csvTasks[c].file.isNull /\ csvTasks[c].file.content = <<>>
    /\ csvTasks[c].sentSha # NoSha
    /\ ghFile.content = CSV_HEADER \o RowLine(csvTasks[c].identity, 1)

\* ---- C10
QuestionCount(identity) ==
  IF DocId(identity) \in DOMAIN docs THEN docs[DocId(identity)].questionCount ELSE 0
CommittedCalls(identity) ==
  Cardinality({c \in CallIds : fbTasks[c].outcome = "committed"
                                 /\ fbTasks[c].identity = identity})
C10_Counts == \A identity \in Identities : QuestionCount(identity) = CommittedCalls(identity)
C10_OwnEntryOnly ==
  \A c \in CallIds :
    fbTasks'[c] # fbTasks[c]
      => \A other \in Identities :
           other # fbTasks'[c].identity
             => /\ (DocId(other) \in DOMAIN docs') = (DocId(other) \in DOMAIN docs)
                /\ DocId(other) \in DOMAIN docs => docs'[DocId(other)] = docs[DocId(other)]

\* C10: under any interleaving of trackUserActivityInFirebase transactions,
\* for one user or for several, each user's entry has questionCount equal to
\* the number of that user's calls that committed, and a step of a call for
\* one user leaves every other user's entry as it was.
C10_CountsCommitted == [][C10_Counts' /\ C10_OwnEntryOnly]_vars

\* C10 witness: two calls for one user and one for the other have committed,
\* one of them on its second attempt after losing to a concurrent commit.
C10_ConcurrentCommits ==
  /\ QuestionCount(IdAnn) = 2 /\ QuestionCount(IdBob) = 1
  /\ \E c \in CallIds : fbTasks[c].outcome = "committed" /\ fbTasks[c].attempt = 2

\* ---- C11
C11_Commit(c) ==
  LET identity == fbTasks[c].identity
      id == DocId(identity)
  IN (fbTasks[c].pc = "commit" /\ fbTasks'[c].outcome = "committed")
       => /\ id \in DOMAIN docs'
          /\ IF id \notin DOMAIN docs
             THEN /\ docs'[id].questionCount = 1
                  /\ docs'[id].firstQuestionAt = now /\ docs'[id].lastQuestionAt = now
                  /\ docs'[id].firstSeen = now /\ docs'[id].lastSeen = now
                  /\ docs'[id].userId = identity.user_id
                  /\ docs'[id].teamId = identity.team_id
             ELSE /\ docs'[id].questionCount = docs[id].questionCount + 1
                  /\ docs'[id].lastQuestionAt = now /\ docs'[id].lastSeen = now
C11_Kept ==
  \A id \in DOMAIN docs :
    /\ id \in DOMAIN docs'
    /\ docs'[id].firstQuestionAt = docs[id].firstQuestionAt
    /\ docs'[id].firstSeen = docs[id].firstSeen
    /\ docs'[id].userId = docs[id].userId
    /\ docs'[id].teamId = docs[id].teamId
    /\ docs'[id].questionCount >= 1

\* C11: a committed trackUserActivityInFirebase transaction on an absent entry
\* creates it with questionCount = 1 and the four timestamps at the commit
\* time; on a present entry it adds 1 to questionCount and sets lastQuestionAt
\* and lastSeen to the commit time; no step ever changes an entry's
\* firstQuestionAt, firstSeen, userId or teamId, and questionCount stays >= 1.
C11_CreateThenIncrement == [][C11_Kept /\ \A c \in CallIds : C11_Commit(c)]_vars

\* C11 witness: an entry created at one time has been incremented at a later
\* time: its "last" timestamps moved, its "first" timestamps did not.
C11_IncrementedLater ==
  \E id \in DOMAIN docs :
    /\ docs[id].questionCount = 2
    /\ docs[id].firstSeen = 0 /\ docs[id].firstQuestionAt = 0
    /\ docs[id].lastSeen > 0 /\ docs[id].lastQuestionAt = docs[id].lastSeen

\* ---- C12
C12_WrittenOnce(r) ==
  (reqs[r].pc = "hsetAll" /\ reqs'[r].pc = "hsetSeen")
    => TokenRedisKey(r) \notin DOMAIN redisDb.hash
C12_Kept ==
  \A k \in DOMAIN redisDb.hash :
    "connected_at" \in DOMAIN redisDb.hash[k]
      => /\ k \in DOMAIN redisDb'.hash
         /\ redisDb'.hash[k].connected_at = redisDb.hash[k].connected_at

\* C12: with Redis configured, the hset that carries connected_at is only
\* sent for a key that has no record, and no step changes the connected_at of
\* a record that has one: it stays the time of the first exchange.
C12_ConnectedAtWrittenOnce ==
  [][C12_Kept /\ \A r \in ReqIds : C12_WrittenOnce(r)]_vars

\* ---- C13
C13_Refreshed(r) ==
  LET id == reqs'[r].identity
      key == CacheKey(id.team_id, id.user_id)
      kRedis == userKey(id.team_id, id.user_id)
  IN (reqs'[r].kind = "search" /\ reqs[r].searchCalls = 0 /\ reqs'[r].searchCalls = 1)
       => /\ key \in DOMAIN USERS'
          /\ USERS'[key].last_seen >= reqs'[r].t
          /\ config.redis
               => /\ kRedis \in DOMAIN redisDb'.hash
                  /\ "last_seen" \in DOMAIN redisDb'.hash[kRedis]
                  /\ redisDb'.hash[kRedis].last_seen = reqs'[r].t

\* C13: when a request passes the gate for an identity, USERS holds a record
\* for that identity whose last_seen is not older than the request and, with
\* Redis configured, the remote record's last_seen is the time of the request,
\* whether or not a record existed before.
C13_GateRefreshesLastSeen == [][\A r \in ReqIds : C13_Refreshed(r)]_vars

\* ---- C14
\* The answer of a failed exchange: 400, nothing minted, no record touched.
C14_Failed400(r) ==
  /\ reqs'[r].pc = "done" /\ reqs'[r].status = 400
  /\ reqs'[r].access_token = NoBearer /\ issued' = issued
  /\ USERS' = USERS /\ redisDb' = redisDb
  /\ reqs'[r].accessCalls = 1
C14_Access(r) ==
  (reqs[r].kind = "token" /\ reqs[r].pc = "access"
     /\ reqs'[r].pc \notin {"access", "rejected"})
    => IF ~reqs'[r].slackResp.ok \/ reqs'[r].slackResp.access_token = ""
       THEN /\ C14_Failed400(r)
            /\ reqs'[r].error = "slack_oauth_failed"
            /\ reqs'[r].details = <<reqs'[r].slackResp>>
            /\ reqs'[r].authTestCalls = 0
       ELSE reqs'[r].pc = "authtest" /\ reqs'[r].authTestCalls = 1
C14_AuthTest(r) ==
  (reqs[r].kind = "token" /\ reqs[r].pc = "authtest"
     /\ reqs'[r].pc \notin {"authtest", "rejected"} /\ ~reqs'[r].idResp.ok)
    => /\ C14_Failed400(r)
       /\ reqs'[r].error = "auth_test_failed"
       /\ reqs'[r].details = <<reqs'[r].idResp>>
       /\ reqs'[r].authTestCalls = 1
C14_Stopped(r) ==
  /\ (reqs[r].kind = "token" /\ reqs[r].status = 400) => reqs'[r] = reqs[r]
  /\ reqs'[r].accessCalls <= 1 /\ reqs'[r].authTestCalls <= 1
  /\ reqs'[r].authTestCalls = 1
       => reqs'[r].slackResp.ok /\ reqs'[r].slackResp.access_token # ""

\* C14: a token exchange for which oauth.v2.access answers not ok or without a
\* user token, or auth.test answers not ok, is answered 400 with that answer as
\* details; no credential is minted, USERS and the Redis records are left as
\* they were, and the handler ends.  A request calls oauth.v2.access at most
\* once, and auth.test at most once and only after an ok answer with a token.
C14_FailedExchangeStops ==
  [][\A r \in ReqIds : C14_Access(r) /\ C14_AuthTest(r) /\ C14_Stopped(r)]_vars

\* C14 witness: one exchange has connected a user, and another exchange, whose
\* code was accepted, got a not-ok answer of auth.test and was answered 400.
C14_IdentityCheckFailed ==
  \E r \in ReqIds :
    /\ reqs[r].kind = "token" /\ reqs[r].status = 400
    /\ reqs[r].error = "auth_test_failed" /\ reqs[r].details = <<NoIdResp>>
    /\ reqs[r].authTestCalls = 1
    /\ USERS # NoRecords

\* ---- C15
C15_FileLedgerOff(c) ==
  ~config.github
    => /\ csvTasks'[c].reads = 0 /\ csvTasks'[c].writes = 0
       /\ csvTasks'[c].sentSha = NoSha
       /\ csvTasks'[c].outcome = (IF csvTasks'[c].pc = "done" THEN "skipped" ELSE "none")
       /\ ghFile' = ghFile
C15_DocumentLedgerOff(c) ==
  ~config.firestore
    => /\ fbTasks'[c].attempt = 0
       /\ fbTasks'[c].pc \in {"idle", "done"}
       /\ fbTasks'[c].outcome = (IF fbTasks'[c].pc = "done" THEN "skipped" ELSE "none")
       /\ docs' = docs

\* C15: without the GitHub configuration a trackUserQuestion call sends no
\* read and no write to the content store and leaves the file as it is;
\* without Firestore a trackUserActivityInFirebase call starts no transaction
\* and leaves the documents as they are; a call that has ended has ended
\* without an error.
C15_UnconfiguredNoOp ==
  [][\A c \in CallIds : C15_FileLedgerOff(c) /\ C15_DocumentLedgerOff(c)]_vars

\* C15 witness: a search was answered and both of its ledger calls have ended
\* as no-ops.
C15_BothSkipped ==
  \E r \in ReqIds :
    /\ ~config.github /\ ~config.firestore
    /\ reqs[r].kind = "search" /\ reqs[r].status = 200
    /\ csvTasks[r].pc = "done" /\ csvTasks[r].outcome = "skipped"
    /\ fbTasks[r].pc = "done" /\ fbTasks[r].outcome = "skipped"

\* ---- C16
\* C16: a /slack/thread request that passed the gate without channel or
\* without ts has been answered 400 "missing channel or ts", has ended, and
\* has not called conversations.replies.
C16_MissingParamsRefused ==
  \A r \in ReqIds :
    (/\ reqs[r].kind = "thread" /\ reqs[r].authed
     /\ reqs[r].pc # "gateHset" /\ reqs[r].status # 401
     /\ ~reqs[r].channel \/ ~reqs[r].ts)
      => /\ reqs[r].pc = "done" /\ reqs[r].status = 400
         /\ reqs[r].error = "missing channel or ts"
         /\ reqs[r].threadCalls = 0 /\ reqs[r].json = ""

\* C16 witness: a thread request with a valid credential and a channel but no
\* ts was answered 400.
C16_MissingTsRefused ==
  \E r \in ReqIds :
    /\ reqs[r].kind = "thread" /\ reqs[r].authed
    /\ reqs[r].channel /\ ~reqs[r].ts
    /\ reqs[r].status = 400 /\ reqs[r].threadCalls = 0

\* ---- C17
C17_ThreadStep(r) ==
  (reqs'[r].kind = "thread" /\ reqs'[r] # reqs[r])
    => /\ ghFile' = ghFile /\ docs' = docs
       /\ csvTasks' = csvTasks /\ fbTasks' = fbTasks
       /\ reqs'[r].csvCalls = 0 /\ reqs'[r].fbCalls = 0
       /\ csvTasks'[r] = IdleCsv /\ fbTasks'[r] = IdleFb

\* C17: no step of a /slack/thread request, whatever its credential, its
\* parameters or the answer of conversations.replies, calls trackUserQuestion
\* or trackUserActivityInFirebase or changes the stored file or a userStats
\* document.
C17_ThreadRecordsNothing == [][\A r \in ReqIds : C17_ThreadStep(r)]_vars

\* C17 witness: with both ledgers configured, a thread request was answered
\* with the body of conversations.replies and no ledger call exists for it.
C17_ThreadAnswered ==
  \E r \in ReqIds :
    /\ config.github /\ config.firestore
    /\ reqs[r].kind = "thread" /\ reqs[r].status = 200
    /\ reqs[r].json = "{ok:true,replies}" /\ reqs[r].threadCalls = 1
    /\ csvTasks[r] = IdleCsv /\ fbTasks[r] = IdleFb

\* ---- C18
C18_Arrival(r) ==
  (reqs[r].pc = "idle" /\ reqs'[r].kind = "admin")
    => IF config.ADMIN_KEY = "" \/ reqs'[r].header # config.ADMIN_KEY
       THEN /\ reqs'[r].pc = "done" /\ reqs'[r].status = 401
            /\ reqs'[r].users = NoRecords
       ELSE IF ~config.redis
       THEN /\ reqs'[r].pc = "done" /\ reqs'[r].status = 200
            /\ ~reqs'[r].persistent
            /\ reqs'[r].users = USERS
       ELSE reqs'[r].pc = "smembers" /\ reqs'[r].status = 0
C18_Index(r) ==
  (reqs[r].kind = "admin" /\ reqs[r].pc = "smembers" /\ reqs'[r].pc \in {"hgetall", "done"})
    => IF redisDb.index = {}
       THEN reqs'[r].pc = "done" /\ reqs'[r].users = NoRecords
       ELSE reqs'[r].pc = "hgetall" /\ reqs'[r].keys = redisDb.index
            /\ reqs'[r].users = NoRecords
C18_Record(r) ==
  (/\ reqs[r].kind = "admin" /\ reqs[r].pc = "hgetall"
   /\ reqs'[r] # reqs[r] /\ reqs'[r].pc \in {"hgetall", "done"})
    => /\ \E k \in reqs[r].keys :
            /\ reqs'[r].keys = reqs[r].keys \ {k}
            /\ DOMAIN reqs'[r].users =
                 DOMAIN reqs[r].users \cup (IF k \in DOMAIN redisDb.hash THEN {k} ELSE {})
            /\ k \in DOMAIN redisDb.hash => reqs'[r].users[k] = redisDb.hash[k]
            /\ \A j \in DOMAIN reqs[r].users : j # k => reqs'[r].users[j] = reqs[r].users[j]
       /\ (reqs'[r].pc = "done") = (reqs'[r].keys = {})
C18_Answer(r) ==
  /\ (reqs'[r].kind = "admin" /\ reqs'[r].status = 200 /\ config.redis)
       => /\ reqs'[r].persistent /\ reqs'[r].keys = {}
          /\ DOMAIN reqs'[r].users \subseteq redisDb'.index
  /\ (reqs[r].kind = "admin" /\ reqs[r].pc = "done") => reqs'[r] = reqs[r]

\* C18: GET /admin/users is answered 401 when ADMIN_KEY is not set or the
\* x-admin-key header is not equal to it.  With the right header and without
\* Redis it returns the values of USERS and persistent = false.  With Redis it
\* reads users:index, asks for the record of each key it got, lists the record
\* of every key that has one as it is at that moment and skips the keys that
\* have none, and returns the list with persistent = true.
C18_AdminListing ==
  [][\A r \in ReqIds : C18_Arrival(r) /\ C18_Index(r) /\ C18_Record(r) /\ C18_Answer(r)]_vars

\* C18 witness: the index holds a key whose record is gone with its TTL, and a
\* listing with the right header returned no record for it, persistent = true.
C18_ExpiredKeySkipped ==
  \E r \in ReqIds :
    /\ reqs[r].kind = "admin" /\ reqs[r].status = 200 /\ reqs[r].persistent
    /\ redisDb.index # {} /\ redisDb.hash = NoRecords
    /\ reqs[r].users = NoRecords
    /\ USERS # NoRecords

\* ---- C19
\* C19: a failure of a registry call during a token exchange (exists, hset,
\* sadd, expire) is caught: every exchange whose code was accepted and whose
\* identity check succeeded ends with a 200 response carrying the minted
\* credential.
C19_RegistryFailureCaught ==
  \A r \in ReqIds :
    (/\ reqs[r].kind = "token" /\ reqs[r].slackResp.ok /\ reqs[r].idResp.ok
     /\ reqs[r].pc \in {"done", "rejected"})
      => /\ reqs[r].pc = "done" /\ reqs[r].status = 200
         /\ reqs[r].access_token.form # "none"

\* ---- C20
C20_Read(c) ==
  (csvTasks[c].pc = "read" /\ csvTasks'[c] # csvTasks[c])
    => /\ csvTasks'[c].pc = "write"
       /\ csvTasks'[c].writes = 0 /\ csvTasks'[c].sentSha = NoSha
       /\ \/ csvTasks'[c].file = NullFile
          \/ /\ config.github /\ ghFile.exists
             /\ csvTasks'[c].file = [isNull |-> FALSE, content |-> ghFile.content,
                                     sha |-> BlobSha(ghFile.content)]
C20_Write(c) ==
  (csvTasks[c].pc = "write" /\ csvTasks'[c] # csvTasks[c])
    => /\ csvTasks'[c].file = csvTasks[c].file
       /\ csvTasks'[c].reads = csvTasks[c].reads
       /\ IF config.github
          THEN /\ csvTasks'[c].writes = 1
               /\ csvTasks'[c].sentSha =
                    IF csvTasks[c].file.isNull THEN NoSha ELSE csvTasks[c].file.sha
          ELSE csvTasks'[c].writes = 0
C20_Bounded(c) == csvTasks'[c].reads <= 1 /\ csvTasks'[c].writes <= 1

\* C20: each trackUserQuestion call reads the file at most once and writes at
\* most once, and its PUT carries the sha that its own read returned, or no sha
\* when its read returned no file, whatever other calls have read or written
\* in between.
C20_WriteCarriesOwnSha ==
  [][\A c \in CallIds : C20_Read(c) /\ C20_Write(c) /\ C20_Bounded(c)]_vars

\* C20 witness: a call read one revision, another call replaced the blob, and
\* the first call's PUT carried the sha of the revision it had read, which is
\* not the sha of the stored blob.
C20_StaleShaSent ==
  \E a \in CallIds, b \in CallIds :
    /\ a # b
    /\ csvTasks[a].pc = "done" /\ csvTasks[a].outcome = "written"
    /\ csvTasks[b].pc = "done" /\ csvTasks[b].writes = 1 /\ csvTasks[b].reads = 1
    /\ ~csvTasks[b].file.isNull
    /\ csvTasks[b].sentSha = csvTasks[b].file.sha
    /\ csvTasks[b].sentSha # BlobSha(ghFile.content)
    /\ csvTasks[a].sentSha # csvTasks[b].sentSha

\* ---- C21
\* The rows a reader finds in a blob: its lines after the header, split into
\* the five columns.
C21_Rows(content) ==
  LET lines == DataLines(content) IN [i \in 1..Len(lines) |-> ParseLine(lines[i])]
C21_WellFormed(content) ==
  LET rows == C21_Rows(content)
  IN /\ Len(content) >= Len(CSV_HEADER)
     /\ SubSeq(content, 1, Len(CSV_HEADER)) = CSV_HEADER
     /\ \A i \in 1..Len(rows), j \in 1..Len(rows) :
          i < j => /\ StatsKey(rows[i].teamId, rows[i].userId)
                        # StatsKey(rows[j].teamId, rows[j].userId)
                   /\ rows[i].questions >= rows[j].questions
     /\ \A i \in 1..Len(rows) : rows[i].questions \in Nat

\* C21: every blob a trackUserQuestion call sends to the content store starts
\* with the five-column header, holds one row per (team_id, user_id) key, and
\* has its rows in non-increasing order of questions, each an integer >= 0.
C21_WrittenBlobWellFormed ==
  \A c \in CallIds :
    (config.github /\ csvTasks[c].pc = "done" /\ csvTasks[c].writes = 1)
      => C21_WellFormed(csvTasks[c].newContent)

\* ---- C22
C22_Entries(m) == {m[i] : i \in 1..Len(m)}
C22_SameTable(c) ==
  LET written == BumpUser(ParseCsv(FileContent(csvTasks[c].file)), csvTasks[c].identity)
      readBack == ParseCsv(csvTasks[c].newContent)
  IN Len(readBack) = Len(written) /\ C22_Entries(readBack) = C22_Entries(written)

\* C22: parsing the blob a trackUserQuestion call serialized yields the table
\* it serialized: the same keys, each with the same names and questions, also
\* for a name that holds the column separator.
C22_ParseInvertsSerialize ==
  \A c \in CallIds : csvTasks[c].pc \in {"write", "done"} => C22_SameTable(c)

\* ---- C23
\* The trackUserQuestion calls started for a user, and the questions value the
\* stored table holds for the user: the one under the user's key as the code
\* reads the table, and the one of the row written for the user.
C23_Started(identity) ==
  Cardinality({c \in CallIds : csvTasks[c].pc # "idle" /\ csvTasks[c].identity = identity})
C23_KeyedQuestions(identity) ==
  LET m == ParseCsv(ghFile.content)
      key == StatsKey(identity.team_id, identity.user_id)
  IN IF MapHas(m, key) THEN MapGet(m, key).questions ELSE 0
C23_WrittenQuestions(identity) ==
  {n \in 0..(MaxCalls + 2) : RowLine(identity, n) \in LineSet(DataLines(ghFile.content))}

\* C23: starting from an empty ledger, in every interleaving of
\* trackUserQuestion calls the questions value stored for a user is at most
\* the number of calls started for that user.
C23_NeverDoubleCounted ==
  \A identity \in Identities :
    /\ C23_KeyedQuestions(identity) <= C23_Started(identity)
    /\ \A n \in C23_WrittenQuestions(identity) : n <= C23_Started(identity)

\* C23 witness: three calls for one user have ended, two of them counted and
\* one lost in a race: the stored value is 2.
C23_TwoOfThreeCounted ==
  \E identity \in Identities :
    /\ C23_Started(identity) = 3
    /\ \A c \in CallIds : csvTasks[c].pc = "done"
    /\ C23_KeyedQuestions(identity) = 2
    /\ \E c \in CallIds : csvTasks[c].outcome = "rejected"

\* ---- C24
\* Every row the code reads from the blob before is still read from the blob
\* after, with a questions value that is not lower; and every row written for
\* a user is still there, with a value that is not lower.
C24_Kept(before, after) ==
  LET m == ParseCsv(before)
      n == ParseCsv(after)
  IN /\ \A i \in 1..Len(m) :
          /\ MapHas(n, m[i].key)
          /\ MapGet(n, m[i].key).questions >= m[i].row.questions
     /\ \A identity \in Identities, q \in 0..(MaxCalls + 2) :
          RowLine(identity, q) \in LineSet(DataLines(before))
            => \E p \in q..(MaxCalls + 2) : RowLine(identity, p) \in LineSet(DataLines(after))

\* C24: with a content store that enforces the sha, no step of a
\* trackUserQuestion call removes a row from the stored table or lowers a
\* stored questions value, also when the call's read failed or another call
\* wrote between its read and its PUT.
C24_NothingRemoved == [][C24_Kept(ghFile.content, ghFile'.content)]_vars

\* ---- C25
C25_Fields == {"team_id", "user_id", "team", "user", "connected_at", "last_seen"}
C25_Complete(rec) ==
  /\ DOMAIN rec = C25_Fields
  /\ rec.last_seen >= rec.connected_at

\* C25: in every reachable state every record under a user key of the remote
\* store has the six fields team_id, user_id, team, user, connected_at and
\* last_seen, with last_seen not earlier than connected_at.
C25_RecordsComplete ==
  \A k \in DOMAIN redisDb.hash : C25_Complete(redisDb.hash[k])

====
